---- MODULE Spec2Model ----
(***************************************************************************)
(* Gold premium bot: gold_premium_bot.py and daily_signal_generator.py.    *)
(* Both scripts run to completion on a schedule and share one history      *)
(* file, gold_premium_history.json.                                        *)
(*                                                                         *)
(* Numbers.  Python floats are carried in fixed point:                     *)
(*   - a premium is an integer number of 1/1000 percent (1004 = 1.004 %),  *)
(*     so round(x, 2) is rounding to a multiple of 10;                     *)
(*   - prices are whole won and whole dollars.                             *)
(* A quotient is cut to its unit, which is the precision of the model.     *)
(* A Python value that may be None is a sequence: << >> is None, <<v>> is  *)
(* the value v.  A calendar date (date.today().isoformat()) is its day     *)
(* number; two ISO strings are equal iff the day numbers are.              *)
(***************************************************************************)
EXTENDS Integers, Sequences, FiniteSets, TLC

\* store     the history file
\* result    what the last run of main() reported
\* runs      runs of main() so far
\* saves     calls of save_history so far
\* lastDate  date.today() of the last run
\* ordered   no run so far saw an earlier date than the run before it
\* navMissing the last run was daily_signal_generator's and its navPrice was None
\* fin, fout, fpc  inputs, outputs and position of the store-function pipeline
VARIABLES store, result, runs, saves, lastDate, ordered, navMissing, fin, fout, fpc

vars == <<store, result, runs, saves, lastDate, ordered, navMissing, fin, fout, fpc>>
mainVars == <<store, result, runs, saves, lastDate, ordered, navMissing>>
fnVars == <<fin, fout, fpc>>

None == << >>
Some(v) == <<v>>

\* ---------------------------------------------------------------- bounds
MaxRuns == 2
NumDays == 2
SmallLen == 3
Extra == 2

\* ------------------------------------------------------ program constants
Capacity == 100
Window == 7
PctScale == 100 * 1000
DonPerGramX100 == 375
TroyOunceX10000 == 311035

\* FirstDay is the day of the newest record of a file left by earlier runs.
FirstDay == Capacity
Days == FirstDay .. (FirstDay + NumDays - 1)

\* ------------------------------------------------------------- helpers
Last(s) == s[Len(s)]

RECURSIVE SumSeq(_)
SumSeq(s) == IF s = << >> THEN 0 ELSE s[1] + SumSeq(Tail(s))

\* Python s[-n:] for n > 0
LastN(s, n) == IF Len(s) <= n THEN s ELSE SubSeq(s, Len(s) - n + 1, Len(s))

\* Python round(x, 2) on a premium in 1/1000 percent: nearest multiple of 10,
\* a tie going to the even hundredth.
Round2(x) ==
  LET q == x \div 10
      r == x % 10
  IN  IF r < 5 THEN 10 * q
      ELSE IF r > 5 THEN 10 * (q + 1)
      ELSE IF q % 2 = 0 THEN 10 * q ELSE 10 * (q + 1)

\* --------------------------------------------------------- history store
\* The file DATA_FILE.  kind:
\*   "absent"     os.path.exists is false
\*   "unreadable" the file exists, open()/read() raises (OSError,
\*                UnicodeDecodeError)
\*   "badjson"    the text is not JSON (json.JSONDecodeError)
\*   "notlist"    valid JSON whose top-level value is an object, not a list
\*   "ok"         a JSON list of {date, premium} objects, held in data
MalformedKinds == {"unreadable", "badjson", "notlist"}
File(kind, data) == [kind |-> kind, data |-> data]
AbsentFile == File("absent", << >>)

\* load_history: what the call does on the file f.
\*   raised  an exception leaves load_history
\*   islist  the value returned is a list of records (value holds it)
LoadHistory(f) ==
  IF f.kind = "absent" THEN [raised |-> FALSE, islist |-> TRUE, value |-> << >>]
  ELSE IF f.kind = "unreadable" THEN [raised |-> TRUE, islist |-> FALSE, value |-> << >>]
  ELSE IF f.kind = "badjson" THEN [raised |-> FALSE, islist |-> TRUE, value |-> << >>]
  ELSE IF f.kind = "notlist" THEN [raised |-> FALSE, islist |-> FALSE, value |-> << >>]
  ELSE [raised |-> FALSE, islist |-> TRUE, value |-> f.data]

\* variants of save_history: one that writes everything, one that keeps the
\* oldest entries.
SaveHistoryNoTrim(data) == File("ok", data)
SaveHistoryHead(data) ==
  File("ok", IF Len(data) <= Capacity THEN data ELSE SubSeq(data, 1, Capacity))

\* save_history: data[-100:] written to the file.
SaveHistory(data) == File("ok", LastN(data, Capacity))

Record(today, premium) == [date |-> today, premium |-> Round2(premium)]

\* variants of the upsert: one that always appends, one that keeps the
\* record already stored for today.
UpsertAppend(history, today, premium) == Append(history, Record(today, premium))
UpsertKeep(history, today, premium) ==
  IF history # << >> /\ Last(history).date = today
  THEN history
  ELSE Append(history, Record(today, premium))

\* main: the same-day replace or append of today's record.
Upsert(history, today, premium) ==
  IF history # << >> /\ Last(history).date = today
  THEN [history EXCEPT ![Len(history)] = Record(today, premium)]
  ELSE Append(history, Record(today, premium))

\* ------------------------------------------------------- trend analysis
\* variant: the last record whatever its date.
PrevPremiumUnfiltered(history, today, premium) ==
  IF history # << >> THEN Last(history).premium ELSE premium

\* main: prev_premium_data = [h for h in history if h["date"] != today];
\* its last premium, else this run's premium.
PrevPremium(history, today, premium) ==
  LET prev_premium_data == SelectSeq(history, LAMBDA h : h.date # today)
  IN  IF prev_premium_data # << >> THEN Last(prev_premium_data).premium ELSE premium

\* variant: the window without the newest record.
Last7Earlier(history) ==
  LET before == IF history = << >> THEN << >> ELSE SubSeq(history, 1, Len(history) - 1)
      w == LastN(before, Window)
  IN  [i \in 1..Len(w) |-> w[i].premium]

\* main: last7 = [x["premium"] for x in history[-7:]]
Last7(history) ==
  LET w == LastN(history, Window)
  IN  [i \in 1..Len(w) |-> w[i].premium]

\* main: avg7 = sum(last7)/len(last7) if last7 else 0, kept as the exact
\* fraction num/den.
Avg7(last7) ==
  IF last7 # << >> THEN [num |-> SumSeq(last7), den |-> Len(last7)]
  ELSE [num |-> 0, den |-> 1]

\* main: level = "고평가" if info["premium"] > avg7 else "저평가"
Level(premium, avg7) ==
  IF premium * avg7.den > avg7.num THEN "OVERVALUED" ELSE "UNDERVALUED"

\* main: trend = "📈 상승세" if change > 0 else "📉 하락세"
Trend(change) == IF change > 0 THEN "UP" ELSE "DOWN"

\* ------------------------------------------------------ run outcomes
\* What one run of main() told the chat:
\*   outcome  "idle"     no run yet
\*            "message"  the premium message (msg_data) was sent
\*            "none"     no premium message (error notice only)
\*   cause    why there is no message: "quote", "nav", "load", "send"
\*   failed   quote acquisition or the premium division failed in this run
\*   fresh    calc_premium()["premium"] of this run, None if there is none
\*   premium, change, avg7, level, trend  as printed in the message
Outcome(outcome, cause, failed, today, fresh, premium, change, avg7, level, trend) ==
  [outcome |-> outcome, cause |-> cause, failed |-> failed,
   date |-> today, fresh |-> fresh, premium |-> premium, change |-> change,
   avg7 |-> avg7, level |-> level, trend |-> trend]

NoMessage(cause, failed, today, fresh) ==
  Outcome("none", cause, failed, today, fresh, None, 0, Avg7(<< >>), "-", "-")

Idle == Outcome("idle", "-", FALSE, 0, None, None, 0, Avg7(<< >>), "-", "-")

\* ------------------------------------------------------ quote acquisition
\* ticker.info of one Yahoo symbol; up = FALSE when the lookup itself raises.
Info(rmp, pc, nav) ==
  [up |-> TRUE, regularMarketPrice |-> rmp, previousClose |-> pc, navPrice |-> nav]
Down == [up |-> FALSE, regularMarketPrice |-> None, previousClose |-> None, navPrice |-> None]

Raise == [ok |-> FALSE, val |-> 0]
Return(v) == [ok |-> TRUE, val |-> v]

\* gold_premium_bot.get_yahoo_price
BotGetYahooPrice(info) ==
  IF ~info.up \/ info.regularMarketPrice = None THEN Raise
  ELSE Return(info.regularMarketPrice[1])

\* gold_premium_bot.get_korean_gold: text is the scraped price per don, None
\* when the element is missing, times out or is not all digits.
GetKoreanGold(text) ==
  IF text = None THEN Raise ELSE Return((text[1] * 100) \div DonPerGramX100)

\* gold_premium_bot.get_gold_and_fx
BotGetGoldAndFx(q) ==
  LET usd_krw == BotGetYahooPrice(q.fx)
      gold_usd == BotGetYahooPrice(q.gold)
      krx_gold_per_g == GetKoreanGold(q.don)
  IN  IF ~usd_krw.ok \/ ~gold_usd.ok \/ ~krx_gold_per_g.ok THEN Raise
      ELSE Return([korean |-> krx_gold_per_g.val,
                   intl_krw |-> (gold_usd.val * usd_krw.val * 10000) \div TroyOunceX10000])

\* variant: a failed acquisition yields a premium of 0 instead of raising.
BotCalcPremiumZeroOnError(q) ==
  LET g == BotGetGoldAndFx(q)
  IN  IF ~g.ok \/ g.val.intl_krw = 0 THEN [raised |-> FALSE, premium |-> Some(0)]
      ELSE [raised |-> FALSE,
            premium |-> Some((g.val.korean * PctScale) \div g.val.intl_krw - PctScale)]

\* gold_premium_bot.calc_premium: raised when get_gold_and_fx raises or the
\* division is by zero.
BotCalcPremium(q) ==
  LET g == BotGetGoldAndFx(q)
  IN  IF ~g.ok \/ g.val.intl_krw = 0 THEN [raised |-> TRUE, premium |-> None]
      ELSE [raised |-> FALSE,
            premium |-> Some((g.val.korean * PctScale) \div g.val.intl_krw - PctScale)]

\* daily_signal_generator.get_yahoo_price: previousClose stands in for a
\* missing regularMarketPrice.
DailyGetYahooPrice(info) ==
  LET price == IF info.regularMarketPrice = None THEN info.previousClose
               ELSE info.regularMarketPrice
  IN  IF ~info.up \/ price = None THEN Raise ELSE Return(price[1])

\* daily_signal_generator.get_korean_gold_data
GetKoreanGoldData(info) ==
  LET market_price == IF info.regularMarketPrice = None THEN info.previousClose
                      ELSE info.regularMarketPrice
  IN  IF ~info.up \/ market_price = None THEN Raise
      ELSE Return([market_price |-> market_price[1], nav_price |-> info.navPrice])

\* daily_signal_generator.get_gold_and_fx
DailyGetGoldAndFx(q) ==
  LET usd_krw == DailyGetYahooPrice(q.fx)
      gold_usd == DailyGetYahooPrice(q.gold)
      etf == GetKoreanGoldData(q.etf)
  IN  IF ~usd_krw.ok \/ ~gold_usd.ok \/ ~etf.ok THEN Raise ELSE Return(etf.val)

\* variant: without a NAV the market price stands in for it, as it does for
\* info["international_krw"].
DailyCalcPremiumNavDefault(q) ==
  LET g == DailyGetGoldAndFx(q)
      nav == IF g.val.nav_price = None THEN g.val.market_price ELSE g.val.nav_price[1]
  IN  IF ~g.ok THEN [raised |-> TRUE, premium |-> None]
      ELSE IF nav = 0 THEN [raised |-> TRUE, premium |-> None]
      ELSE [raised |-> FALSE,
            premium |-> Some((g.val.market_price * PctScale) \div nav - PctScale)]

\* daily_signal_generator.calc_premium: premium stays None without a NAV.
DailyCalcPremium(q) ==
  LET g == DailyGetGoldAndFx(q)
  IN  IF ~g.ok THEN [raised |-> TRUE, premium |-> None]
      ELSE IF g.val.nav_price = None THEN [raised |-> FALSE, premium |-> None]
      ELSE IF g.val.nav_price[1] = 0 THEN [raised |-> TRUE, premium |-> None]
      ELSE [raised |-> FALSE,
            premium |-> Some((g.val.market_price * PctScale) \div g.val.nav_price[1] - PctScale)]

\* The quotes a run may be handed.
BotQuotes ==
  [fx : {Down, Info(Some(1296), None, None)},
   gold : {Info(None, None, None), Info(Some(0), None, None), Info(Some(150), None, None)},
   don : {None, Some(23674), Some(23205)}]

DailyQuotes ==
  [fx : {Info(None, None, None), Info(None, Some(1296), None)},
   gold : {Down, Info(Some(150), None, None)},
   etf : {Info(None, None, Some(12500)), Info(None, Some(12376), Some(12500)),
          Info(Some(12626), None, Some(12500)), Info(Some(12875), None, Some(12500)),
          Info(Some(12626), None, None), Info(Some(12626), None, Some(0))}]

\* Stated on the raw quote: a price the script needs is not there, or the
\* divisor of the premium is zero.
Missing(info) == ~info.up \/ info.regularMarketPrice = None
MissingBoth(info) == ~info.up \/ (info.regularMarketPrice = None /\ info.previousClose = None)
BotQuoteFails(q) ==
  \/ Missing(q.fx) \/ Missing(q.gold) \/ q.don = None
  \/ q.fx.regularMarketPrice = Some(0) \/ q.gold.regularMarketPrice = Some(0)
DailyQuoteFails(q) ==
  \/ MissingBoth(q.fx) \/ MissingBoth(q.gold) \/ MissingBoth(q.etf)
  \/ q.etf.navPrice = Some(0)

\* ------------------------------------------------------------- the runs
\* main, success branch: upsert, save_history, then change / avg7 / level /
\* trend and the message.  loaded is load_history()'s list.
Report(failed, today, premium, loaded, sendOk) ==
  LET history == Upsert(loaded, today, premium)
      change == premium - PrevPremium(history, today, premium)
      avg7 == Avg7(Last7(history))
  IN  /\ store' = SaveHistory(history)
      /\ saves' = saves + 1
      /\ result' = IF sendOk
                   THEN Outcome("message", "-", failed, today, Some(premium),
                                Some(premium), change, avg7, Level(premium, avg7),
                                Trend(change))
                   ELSE NoMessage("send", failed, today, Some(premium))

\* daily_signal_generator.main, NAV-missing branch with a non-empty history:
\* the last stored premium is shown, nothing is saved.
ReportLast(failed, today, history, sendOk) ==
  LET last_valid_premium == Last(history).premium
      avg7 == Avg7(Last7(history))
  IN  /\ UNCHANGED <<store, saves>>
      /\ result' = IF sendOk
                   THEN Outcome("message", "-", failed, today, None,
                                Some(last_valid_premium), 0, avg7,
                                Level(last_valid_premium, avg7), "PAST")
                   ELSE NoMessage("send", failed, today, None)

\* main, except branch (and the early return of daily_signal_generator).
Abort(cause, failed, today) ==
  /\ UNCHANGED <<store, saves>>
  /\ result' = NoMessage(cause, failed, today, None)

\* today = datetime.date.today().isoformat()
Clock(today) ==
  /\ runs < MaxRuns
  /\ runs' = runs + 1
  /\ ordered' = (ordered /\ today >= lastDate)
  /\ lastDate' = today

\* gold_premium_bot.main
BotMain ==
  \E today \in Days, q \in BotQuotes, sendOk \in BOOLEAN :
    LET info == BotCalcPremium(q)
        ld == LoadHistory(store)
        failed == BotQuoteFails(q)
    IN  /\ Clock(today)
        /\ IF info.raised THEN Abort("quote", failed, today)
           ELSE IF ld.raised \/ ~ld.islist THEN Abort("load", failed, today)
           ELSE Report(failed, today, info.premium[1], ld.value, sendOk)
        /\ navMissing' = FALSE
        /\ UNCHANGED fnVars

\* daily_signal_generator.main
DailyMain ==
  \E today \in Days, q \in DailyQuotes, sendOk \in BOOLEAN :
    LET info == DailyCalcPremium(q)
        ld == LoadHistory(store)
        failed == DailyQuoteFails(q)
    IN  /\ Clock(today)
        /\ IF info.raised THEN Abort("quote", failed, today)
           ELSE IF ld.raised \/ ~ld.islist THEN Abort("load", failed, today)
           ELSE IF info.premium = None
                THEN IF ld.value = << >> THEN Abort("nav", failed, today)
                     ELSE ReportLast(failed, today, ld.value, sendOk)
           ELSE Report(failed, today, info.premium[1], ld.value, sendOk)
        /\ navMissing' = (q.etf.navPrice = None)
        /\ UNCHANGED fnVars

\* The environment damages the history file between runs.
DamageStore ==
  /\ store.kind \in {"ok", "absent"}
  /\ \E k \in MalformedKinds : store' = File(k, << >>)
  /\ UNCHANGED <<result, runs, saves, lastDate, ordered, navMissing>>
  /\ UNCHANGED fnVars

\* The file left by n earlier runs on the n consecutive days up to FirstDay.
Prefill(n) ==
  [i \in 1..n |-> [date |-> FirstDay - n + i, premium |-> 1000 * (((i - 1) % 3) + 1)]]
PrefillLens == {2, Capacity - 1, Capacity}

FnOff ==
  /\ fin = [h |-> << >>, d |-> 0, p1 |-> 0, p2 |-> 0, damage |-> "none"]
  /\ fout = [u1 |-> << >>, u2 |-> << >>, file |-> AbsentFile, loaded |-> LoadHistory(AbsentFile)]
  /\ fpc = "off"

MainOff ==
  /\ store = AbsentFile
  /\ result = Idle
  /\ runs = 0
  /\ saves = 0
  /\ lastDate = FirstDay
  /\ ordered = TRUE
  /\ navMissing = FALSE

Init ==
  /\ store \in {AbsentFile} \cup {File("ok", Prefill(n)) : n \in PrefillLens}
  /\ result = Idle
  /\ runs = 0
  /\ saves = 0
  /\ lastDate = FirstDay
  /\ ordered = TRUE
  /\ navMissing = FALSE
  /\ FnOff

Next == BotMain \/ DailyMain \/ DamageStore

Spec == Init /\ [][Next]_vars

\* ------------------------------------------- the store functions alone
\* load_history, the upsert of main and save_history applied to histories of
\* every length around the capacity, with and without repeated dates.
FnHist(n, pat) ==
  [i \in 1..n |-> [date |-> IF pat = "days" THEN i ELSE (i + 1) \div 2, premium |-> 10 * i]]
FnLens == (0..SmallLen) \cup ((Capacity - 1)..(Capacity + Extra))
FnPremiums == {1008, 3000, 0 - 992}
FnDamage == {"none", "absent"} \cup MalformedKinds

Damaged(file, damage) ==
  IF damage = "none" THEN file
  ELSE IF damage = "absent" THEN AbsentFile
  ELSE File(damage, << >>)

FnInit ==
  /\ \E n \in FnLens, pat \in {"days", "pairs"}, same \in BOOLEAN,
        p1 \in FnPremiums, p2 \in FnPremiums, damage \in FnDamage :
       LET h == FnHist(n, pat)
           last == IF h = << >> THEN 1 ELSE Last(h).date
       IN  fin = [h |-> h, d |-> IF same THEN last ELSE last + 1,
                  p1 |-> p1, p2 |-> p2, damage |-> damage]
  /\ fout = [u1 |-> << >>, u2 |-> << >>, file |-> AbsentFile, loaded |-> LoadHistory(AbsentFile)]
  /\ fpc = "start"
  /\ MainOff

FnUpsert ==
  /\ fpc = "start"
  /\ LET u1 == Upsert(fin.h, fin.d, fin.p1)
     IN  fout' = [fout EXCEPT !.u1 = u1, !.u2 = Upsert(u1, fin.d, fin.p2)]
  /\ fpc' = "upserted"
  /\ UNCHANGED <<fin, mainVars>>

FnSave ==
  /\ fpc = "upserted"
  /\ fout' = [fout EXCEPT !.file = SaveHistory(fout.u2)]
  /\ fpc' = "saved"
  /\ UNCHANGED <<fin, mainVars>>

FnLoad ==
  /\ fpc = "saved"
  /\ fout' = [fout EXCEPT !.loaded = LoadHistory(Damaged(fout.file, fin.damage))]
  /\ fpc' = "loaded"
  /\ UNCHANGED <<fin, mainVars>>

FnNext == FnUpsert \/ FnSave \/ FnLoad

SpecFn == FnInit /\ [][FnNext]_vars

\* ============================================================== claims
Min(a, b) == IF a <= b THEN a ELSE b
RanRun == runs' # runs
OnePerDate(h) == \A i, j \in 1..Len(h) : h[i].date = h[j].date => i = j
\* sum of the premiums of h[lo..hi]
RECURSIVE SumRange(_, _, _)
SumRange(h, lo, hi) == IF lo > hi THEN 0 ELSE h[lo].premium + SumRange(h, lo + 1, hi)
\* the message of the success branch of main
FreshMessage(r) == r.outcome = "message" /\ r.fresh # None
\* indices of the records of h dated otherwise than d
OtherDays(h, d) == {i \in 1..Len(h) : h[i].date # d}
Newest(S) == CHOOSE i \in S : \A j \in S : j <= i
\* the comparison value of a run on day d with premium cur over history h
Baseline(h, d, cur) ==
  IF OtherDays(h, d) = {} THEN cur ELSE h[Newest(OtherDays(h, d))].premium

\* C1 as stated: whatever the dates of the runs, the persisted history holds
\* at most one record per calendar date.
C1_OnePerDateAnyDates == store.kind = "ok" => OnePerDate(store.data)

\* C1 amended: as long as no run saw an earlier date than the run before
\* it, the persisted history holds at most one record per calendar date.
C1_OnePerDateOrdered == (ordered /\ store.kind = "ok") => OnePerDate(store.data)

\* two saving runs on FirstDay over a two-day file that already held
\* FirstDay left one record for it
C1_Witness ==
  /\ ordered /\ saves >= 2 /\ store.kind = "ok"
  /\ Len(store.data) = 2 /\ Last(store.data).date = FirstDay
  /\ store.data[1].date = FirstDay - 1

\* C2: upserting a second record of the date of the first replaces it in
\* place: same length, same entries but the last, the last is the second
\* record; with equal records nothing changes.
C2_UpsertSameDate ==
  fpc # "start" =>
    /\ Len(fout.u2) = Len(fout.u1)
    /\ \A i \in 1..(Len(fout.u1) - 1) : fout.u2[i] = fout.u1[i]
    /\ Last(fout.u2) = [date |-> fin.d, premium |-> Round2(fin.p2)]
    /\ (fin.p1 = fin.p2 => fout.u2 = fout.u1)

\* a full history ending on the day of the two records, whose stored
\* premiums differ
C2_Witness ==
  /\ fpc = "upserted" /\ Len(fin.h) >= Capacity /\ Last(fin.h).date = fin.d
  /\ Round2(fin.p1) # Round2(fin.p2) /\ Last(fout.u1).premium = Round2(fin.p1)

\* C3: the sequence save_history wrote is never longer than the capacity.
C3_CapacityBound == store.kind = "ok" => Len(store.data) <= Capacity

\* a full file took the record of a new day and lost its oldest one
C3_Witness ==
  /\ store.kind = "ok" /\ saves >= 1 /\ Len(store.data) = Capacity
  /\ store.data[1] = Prefill(Capacity)[2] /\ Last(store.data).date = FirstDay + 1

\* C4: a run in which quote acquisition or the premium division fails
\* leaves the history file as it was and does not call save_history.
C4_FailedRunKeepsStore ==
  [][(RanRun /\ result'.failed) => (store' = store /\ saves' = saves)]_vars

\* the last run failed on its quote over a stored history
C4_Witness ==
  /\ runs >= 1 /\ result.failed /\ result.outcome = "none"
  /\ store.kind = "ok" /\ Len(store.data) >= 2

\* C5: load_history returns the empty sequence without raising when the
\* file is absent or malformed, and the stored sequence otherwise.
C5_LoadLenient ==
  fpc = "loaded" =>
    LET f == Damaged(fout.file, fin.damage)
    IN  /\ ~fout.loaded.raised
        /\ fout.loaded.islist
        /\ fout.loaded.value = IF f.kind = "ok" THEN f.data ELSE << >>

\* C6: a run that sent the premium message shows the premium computed from
\* its own quote, with the change and the trend derived from it.
C6_CompleteOrNone ==
  result.outcome = "message" =>
    /\ result.fresh # None
    /\ result.premium = result.fresh
    /\ result.trend \in {"UP", "DOWN", "FLAT"}

\* C7: the trend of the message is UP for a positive change, DOWN for a
\* negative one and FLAT for none.
C7_TrendDirection ==
  FreshMessage(result) =>
    result.trend = IF result.change > 0 THEN "UP"
                   ELSE IF result.change < 0 THEN "DOWN" ELSE "FLAT"

\* the value the message of r compared its premium with
UsedBaseline(r) == r.premium[1] - r.change
\* two successive runs, both with a message of the success branch, the
\* second on the date of the first and on the file the first left
SameDayRerun ==
  /\ RanRun /\ FreshMessage(result) /\ FreshMessage(result')
  /\ result'.date = result.date /\ store.kind = "ok"

\* C8 as stated, its last sentence: a same-day re-run compares with the
\* same baseline as the run before it on that day.
C8_RerunSameBaseline ==
  [][SameDayRerun => UsedBaseline(result') = UsedBaseline(result)]_vars

\* C8 amended: the change of a successful run is its premium minus the
\* premium of the newest stored record of another date, and 0 when there is
\* none; a same-day re-run compares with the same baseline as the run before
\* it whenever a record of another date is stored.
C8_ChangeVsPrevious ==
  [][/\ (RanRun /\ FreshMessage(result')) =>
          result'.change = result'.premium[1]
                           - Baseline(store'.data, result'.date, result'.premium[1])
     /\ (SameDayRerun /\ OtherDays(store.data, result.date) # {}) =>
          UsedBaseline(result') = UsedBaseline(result)]_vars

\* a message whose change is measured against an older day although the
\* newest stored record is today's, in a full file
C8_Witness ==
  /\ FreshMessage(result) /\ store.kind = "ok" /\ saves >= 2
  /\ Len(store.data) = Capacity
  /\ Last(store.data).date = result.date
  /\ result.change # 0
  /\ result.change = result.premium[1] - store.data[Capacity - 1].premium

C10_EvictOldestFirst ==
  fpc \in {"saved", "loaded"} =>
    LET h == fout.u2
        w == fout.file.data
        k == Min(Capacity, Len(h))
    IN  /\ fout.file.kind = "ok"
        /\ Len(w) = k
        /\ \A i \in 1..k : w[i] = h[Len(h) - k + i]
        /\ Last(w) = [date |-> fin.d, premium |-> Round2(fin.p2)]

\* a history two over the capacity was saved
C10_Witness ==
  /\ fpc = "saved" /\ Len(fout.u2) >= Capacity + 2
  /\ Len(fout.file.data) = Capacity /\ fout.file.data[1] = fout.u2[Len(fout.u2) - Capacity + 1]

\* C11: a run of daily_signal_generator.main whose NAV is missing leaves the
\* history file as it was and does not call save_history, whether the loaded
\* history is empty or not; a run that calls save_history has a computed
\* premium.
C11_NavMissingKeepsStore ==
  [][/\ (RanRun /\ navMissing') => (store' = store /\ saves' = saves)
     /\ (RanRun /\ saves' # saves) => (result'.fresh # None /\ ~navMissing')]_vars

\* after an earlier run saved a history, a run without NAV showed its last
\* premium and the file still ends with that record
C11_Witness ==
  /\ navMissing /\ saves >= 1 /\ runs >= 2
  /\ result.outcome = "message" /\ result.fresh = None /\ result.trend = "PAST"
  /\ store.kind = "ok" /\ Some(Last(store.data).premium) = result.premium

====
